---- MODULE Spec2Model ----
(***************************************************************************)
(* A model of the PLY converter web service.                               *)
(*                                                                         *)
(*   app.py            the Flask handlers (/upload, /progress, /download,  *)
(*                     /cleanup), the two process-wide dictionaries        *)
(*                     conversion_progress and conversion_results, and the *)
(*                     background worker convert_file_async_debug          *)
(*   ply_converter.py  PLYConverter.convert_ply (the pipeline the worker   *)
(*                     calls), the density filter of                       *)
(*                     precise_poisson_reconstruction and                  *)
(*                     fix_face_orientation_and_normals                    *)
(*                                                                         *)
(* The worker is a thread without locks: each of its dictionary writes is  *)
(* one step (a label "Lnnn" is line nnn of app.py, "Pnnn" line nnn of      *)
(* ply_converter.py) and the request handlers, run by the server on other  *)
(* threads, may take a step between any two of them.                       *)
(***************************************************************************)
EXTENDS Integers, Sequences, FiniteSets, TLC

VARIABLES
    conversion_progress,  \* app.py:33  job id -> [status, progress, message]
    conversion_results,   \* app.py:34  job id -> formats of the verified files
    upload_files,         \* job ids whose input file exists in UPLOAD_FOLDER
    output_files,         \* <<job id, format>> of the files in OUTPUT_FOLDER
    next_id,              \* number of conversion ids generated so far
    pc,                   \* job id -> the worker thread's position
    output_formats,       \* job id -> the worker's argument valid_formats
    is_point_cloud,       \* job id -> convert_ply's local is_point_cloud
    i,                    \* job id -> index of convert_ply's export loop
    results,              \* job id -> convert_ply's local results (its keys)
    error_msg,            \* job id -> the text of the exception the worker raised
    http,                 \* the response of /upload, when the last step saved a file
    densities,            \* ply_converter.py:206  the per-vertex densities
    density_filter,       \* ply_converter.py:214-216  thresh and the mask
    mesh,                 \* the mesh fix_face_orientation_and_normals judges
    fixed,                \* the mesh it returns, then convert_ply's cleanup of it
    recon,                \* ply_converter.py:420-431  the reconstruction of a point cloud
    loader,               \* ply_converter.py:302-366  load_ply_file's parsers and result
    smooth                \* the smoothing level on its way through the pipeline

\* The routines of ply_converter.py are checked on their own, each under a
\* specification of its own below; the service leaves their variables alone.
geometry == <<densities, density_filter, mesh, fixed, recon, loader, smooth>>

\* The variables of the service, which the routines leave alone.
service == <<conversion_progress, conversion_results, upload_files,
             output_files, next_id, pc, output_formats, is_point_cloud, i,
             results, error_msg, http>>

vars == <<conversion_progress, conversion_results, upload_files, output_files,
          next_id, pc, output_formats, is_point_cloud, i, results, error_msg,
          http, geometry>>

(***************************************************************************)
(* Bounds and program constants                                            *)
(***************************************************************************)
MaxJobs == 1

\* The jobs that run side by side under PairSpec.
MaxPair == 2

Jobs == 1..(IF MaxJobs > MaxPair THEN MaxJobs ELSE MaxPair)

OUTPUT_FORMATS == {"stl", "obj", "glb", "3mf", "dxf"}

\* The format lists a client sends in the form field 'formats'.
Requests ==
    { <<>>, <<"stl">>, <<"badfmt">>, <<"stl", "badfmt">>, <<"stl", "obj">> }

None == -1

NoResponse == [op |-> "none"]

Min(a, b) == IF a < b THEN a ELSE b

\* Faulty variant: the list is not filtered.
valid_formats_unfiltered(fs) == fs

\* [fmt for fmt in output_formats if fmt in OUTPUT_FORMATS]
RECURSIVE valid_formats(_)
valid_formats(fs) ==
    IF fs = <<>> THEN <<>>
    ELSE IF Head(fs) \in OUTPUT_FORMATS
         THEN <<Head(fs)>> \o valid_formats(Tail(fs))
         ELSE valid_formats(Tail(fs))

\* request.form.getlist('formats'), replaced by ['stl'] when empty
default_formats(fs) == IF fs = <<>> THEN <<"stl">> ELSE fs

(***************************************************************************)
(* progress_callback: the three writes of the closure, guarded by the      *)
(* membership test.  They are taken as one step: the only other writer of  *)
(* an entry is /cleanup, which deletes it, and the closure's own           *)
(* try/except absorbs the KeyError that follows, so the registry after the *)
(* callback is the same wherever the deletion falls.                       *)
(***************************************************************************)
progress_callback(cp, j, message, progress) ==
    IF j \in DOMAIN cp
    THEN [cp EXCEPT ![j] =
            [status   |-> "converting",
             progress |-> IF progress # None THEN Min(progress, 100)
                          ELSE cp[j].progress,
             message  |-> message]]
    ELSE cp

\* 80 + int((i + 1) / len(output_formats) * 15), with i counted from 0
export_progress(k, n) == 80 + ((k + 1) * 15) \div n

(***************************************************************************)
(* The call sites of the callback: position -> message, percentage.        *)
(***************************************************************************)
CallbackSites ==
    { "L165", "L175", "L185", "L200",
      "P410", "P419", "P422", "P428", "P431", "P433", "P440", "P442",
      "P447", "P453", "P463", "P473", "P491", "P498" }

\* f'Conversion failed: {str(e)}' (ply_converter.py:495, app.py:242), for
\* the exceptions of the worker: those raised in convert_ply reach app.py
\* with the prefix already on them and get it a second time.
conversion_failed(e) ==
    CASE e = "Failed to import PLYConverter"
           -> "Conversion failed: Failed to import PLYConverter"
      [] e = "Input file not found"
           -> "Conversion failed: Input file not found"
      [] e = "No output files were created successfully"
           -> "Conversion failed: No output files were created successfully"
      [] e = "KeyError" -> "Conversion failed: KeyError"
      [] e = "Failed to load PLY file"
           -> "Conversion failed: Failed to load PLY file"
      [] e = "Trimesh failed" -> "Conversion failed: Trimesh failed"
      [] e = "No files were successfully exported"
           -> "Conversion failed: No files were successfully exported"
      [] e = "Conversion failed: Failed to load PLY file"
           -> "Conversion failed: Conversion failed: Failed to load PLY file"
      [] e = "Conversion failed: Trimesh failed"
           -> "Conversion failed: Conversion failed: Trimesh failed"
      [] e = "Conversion failed: No files were successfully exported"
           -> "Conversion failed: Conversion failed: No files were successfully exported"

\* The worker of job j raises an exception of text e when cond holds.
Raise(j, cond, e) ==
    error_msg' = IF cond THEN [error_msg EXCEPT ![j] = e] ELSE error_msg

site_message(p, j) ==
    CASE p = "L165" -> "Loading PLY converter..."
      [] p = "L175" -> "Creating converter instance..."
      [] p = "L185" -> "Checking input file..."
      [] p = "L200" -> "Starting PLY conversion..."
      [] p = "P410" -> "Loading PLY file..."
      [] p = "P419" -> "Loaded vertices"
      [] p = "P422" -> "Point cloud detected"
      [] p = "P428" -> "Using basic surface reconstruction..."
      [] p = "P431" -> "Precise surface reconstruction completed"
      [] p = "P433" -> "Mesh detected"
      [] p = "P440" -> "Original mesh loaded"
      [] p = "P442" -> "Fixing face orientation"
      [] p = "P447" -> "Applying smoothing..."
      [] p = "P453" -> "Final cleanup..."
      [] p = "P463" -> "Exporting files..."
      [] p = "P473" -> "Exporting format..."
      [] p = "P491" -> "Conversion completed successfully!"
      [] p = "P498" -> conversion_failed(error_msg[j])

\* Faulty variant: the last callback of convert_ply reports 99.
site_progress_short(p, j) ==
    CASE p = "L165" -> 5
      [] p = "L175" -> 10
      [] p = "L185" -> 15
      [] p = "L200" -> 20
      [] p = "P410" -> 5
      [] p = "P419" -> 15
      [] p = "P422" -> 25
      [] p = "P428" -> 35
      [] p = "P431" -> 45
      [] p = "P433" -> 25
      [] p = "P440" -> 40
      [] p = "P442" -> 55
      [] p = "P447" -> 65
      [] p = "P453" -> 75
      [] p = "P463" -> 80
      [] p = "P473" -> export_progress(i[j], Len(output_formats[j]))
      [] p = "P491" -> 99
      [] p = "P498" -> 0

\* The percentage each call site passes to the callback.
site_progress(p, j) ==
    CASE p = "L165" -> 5
      [] p = "L175" -> 10
      [] p = "L185" -> 15
      [] p = "L200" -> 20
      [] p = "P410" -> 5
      [] p = "P419" -> 15
      [] p = "P422" -> 25
      [] p = "P428" -> 35
      [] p = "P431" -> 45
      [] p = "P433" -> 25
      [] p = "P440" -> 40
      [] p = "P442" -> 55
      [] p = "P447" -> 65
      [] p = "P453" -> 75
      [] p = "P463" -> 80
      [] p = "P473" -> export_progress(i[j], Len(output_formats[j]))
      [] p = "P491" -> 100
      [] p = "P498" -> 0

\* Where control goes after the callback at p returns.  The calls between two
\* callbacks that touch only the worker's own mesh and cannot raise
\* (PLYConverter(), create_mesh_from_points_basic,
\* fix_face_orientation_and_normals, smooth_mesh_basic, the final cleanup in
\* its try/except) are part of the step.
site_next(p, j) ==
    CASE p = "L165" -> "L168"
      [] p = "L175" -> "L185"
      [] p = "L185" -> "L187"
      [] p = "L200" -> "P410"
      [] p = "P410" -> "P413"
      [] p = "P419" -> IF is_point_cloud[j] THEN "P422" ELSE "P433"
      [] p = "P422" -> "P425"
      [] p = "P428" -> "P442"
      [] p = "P431" -> "P442"
      [] p = "P433" -> "P435"
      [] p = "P440" -> "P442"
      [] p = "P442" -> "P447"
      [] p = "P447" -> "P453"
      [] p = "P453" -> "P463"
      [] p = "P463" -> IF Len(output_formats[j]) > 0 THEN "P473" ELSE "P488"
      [] p = "P473" -> "P479"
      [] p = "P491" -> "L221"
      [] p = "P498" -> "L242"

(***************************************************************************)
(* Initial state: empty dictionaries, empty folders, no thread.            *)
(***************************************************************************)
ServiceInit ==
    /\ conversion_progress = [j \in {} |-> 0]
    /\ conversion_results = [j \in {} |-> {}]
    /\ upload_files = {}
    /\ output_files = {}
    /\ next_id = 0
    /\ pc = [j \in Jobs |-> "none"]
    /\ output_formats = [j \in Jobs |-> <<>>]
    /\ is_point_cloud = [j \in Jobs |-> FALSE]
    /\ i = [j \in Jobs |-> 0]
    /\ results = [j \in Jobs |-> {}]
    /\ error_msg = [j \in Jobs |-> ""]
    /\ http = NoResponse

NoFilter == [stage |-> "none", thresh |-> "", vertices_to_remove |-> {}]

NoMesh == [faces |-> <<>>, outward |-> <<>>]

NotFixed == [stage |-> "none", faces |-> <<>>, double_sided |-> FALSE,
             raised |-> {}, returned |-> "none"]

NoRecon == [stage |-> "none"]

NoLoad == [stage |-> "none"]

NoSmooth == [stage |-> "none"]

Init ==
    /\ ServiceInit
    /\ densities = <<>>
    /\ density_filter = NoFilter
    /\ mesh = NoMesh
    /\ fixed = NotFixed
    /\ recon = NoRecon
    /\ loader = NoLoad
    /\ smooth = NoSmooth

(***************************************************************************)
(* Dictionary helpers                                                      *)
(***************************************************************************)
\* d[k] = v
Put(d, k, v) == [x \in DOMAIN d \cup {k} |-> IF x = k THEN v ELSE d[x]]

\* del d[k]
Del(d, k) == [x \in DOMAIN d \ {k} |-> d[x]]

(***************************************************************************)
(* /upload (app.py:47-145).  A file name is its '.'-separated parts, in    *)
(* lower case, <<>> the empty name.  file.save is taken to succeed.        *)
(***************************************************************************)
ALLOWED_EXTENSIONS == {"ply"}

\* request.files: without the field 'file', or with a file of some name
Files ==
    { [present |-> FALSE, filename |-> <<>>],
      [present |-> TRUE, filename |-> <<>>],
      [present |-> TRUE, filename |-> <<"mesh", "txt">>],
      [present |-> TRUE, filename |-> <<"mesh", "ply">>] }

\* '.' in filename and filename.rsplit('.', 1)[1].lower() in ALLOWED_EXTENSIONS
allowed_file(filename) ==
    Len(filename) > 1 /\ filename[Len(filename)] \in ALLOWED_EXTENSIONS

\* The three checks that come before the conversion id is generated.
file_accepted(file) ==
    file.present /\ file.filename # <<>> /\ allowed_file(file.filename)

\* The response of the checks of lines 57-70, which write nothing.
upload_refusal(file) ==
    IF ~file.present THEN [code |-> 400, error |-> "No file uploaded"]
    ELSE IF file.filename = <<>>
         THEN [code |-> 400, error |-> "No file selected"]
         ELSE [code |-> 400, error |-> "Only PLY files are allowed"]

UploadRefuse(file) ==
    /\ ~file_accepted(file)
    /\ upload_refusal(file).code = 400
    /\ UNCHANGED vars

\* Lines 72-104: the id is generated and the file saved, then the formats
\* are read, defaulted and filtered; with no valid format left the handler
\* returns 400.
UploadInvalidFormats(file, formats) ==
    /\ file_accepted(file)
    /\ next_id < MaxJobs
    /\ valid_formats(default_formats(formats)) = <<>>
    /\ next_id' = next_id + 1
    /\ upload_files' = upload_files \cup {next_id + 1}
    /\ UNCHANGED error_msg
    /\ http' = [op |-> "upload", code |-> 400,
                error |-> "Invalid output formats specified",
                id |-> next_id + 1, form |-> formats]
    /\ UNCHANGED <<geometry, conversion_progress, conversion_results, output_files,
                   pc, output_formats, is_point_cloud, i, results>>

\* Lines 72-140: the entry is created and the worker thread started.
UploadAccept(file, formats) ==
    /\ file_accepted(file)
    /\ next_id < MaxJobs
    /\ valid_formats(default_formats(formats)) # <<>>
    /\ next_id' = next_id + 1
    /\ upload_files' = upload_files \cup {next_id + 1}
    /\ conversion_progress' =
           Put(conversion_progress, next_id + 1,
               [status |-> "starting", progress |-> 0,
                message |-> "Initializing smooth surface conversion..."])
    /\ pc' = [pc EXCEPT ![next_id + 1] = "L165"]
    /\ output_formats' =
           [output_formats EXCEPT
               ![next_id + 1] = valid_formats(default_formats(formats))]
    /\ UNCHANGED error_msg
    /\ http' = [op |-> "upload", code |-> 200, error |-> "",
                id |-> next_id + 1, form |-> formats]
    /\ UNCHANGED <<geometry, conversion_results, output_files, is_point_cloud, i,
                   results>>

upload_file ==
    \/ \E file \in Files : UploadRefuse(file)
    \/ \E file \in Files, formats \in Requests :
          UploadInvalidFormats(file, formats)
    \/ \E file \in Files, formats \in Requests : UploadAccept(file, formats)

(***************************************************************************)
(* /progress/<id> (app.py:260-291)                                         *)
(***************************************************************************)
\* The formats of conversion_results[j] whose file exists.
existing_results(j) ==
    { f \in conversion_results[j] : <<j, f>> \in output_files }

\* The handler writes nothing: its response is a function of the two
\* dictionaries and the output folder as they are when it runs.
progress_response(j) ==
    IF j \notin DOMAIN conversion_progress
    THEN [code |-> 404]
    ELSE [code |-> 200,
          status |-> conversion_progress[j].status,
          progress |-> conversion_progress[j].progress,
          message |-> conversion_progress[j].message,
          has_links |-> /\ conversion_progress[j].status = "completed"
                        /\ j \in DOMAIN conversion_results,
          download_links |->
              IF /\ conversion_progress[j].status = "completed"
                 /\ j \in DOMAIN conversion_results
              THEN existing_results(j) ELSE {}]

get_progress(j) ==
    /\ progress_response(j).code \in {200, 404}
    /\ UNCHANGED vars

(***************************************************************************)
(* /download/<id>/<format> (app.py:293-325)                                *)
(***************************************************************************)
\* 200 with the file, or one of the three 404s
download_response(j, f) ==
    IF /\ j \in DOMAIN conversion_results
       /\ f \in conversion_results[j]
       /\ <<j, f>> \in output_files
    THEN [code |-> 200, file |-> <<j, f>>]
    ELSE [code |-> 404]

download_file(j, f) ==
    /\ download_response(j, f).code \in {200, 404}
    /\ UNCHANGED vars

(***************************************************************************)
(* /cleanup/<id> (app.py:339-367)                                          *)
(***************************************************************************)
cleanup_conversion(j) ==
    /\ conversion_progress' =
         IF j \in DOMAIN conversion_progress
         THEN Del(conversion_progress, j) ELSE conversion_progress
    /\ IF j \in DOMAIN conversion_results
       THEN /\ output_files' =
                 output_files \ { <<j, f>> : f \in conversion_results[j] }
            /\ conversion_results' = Del(conversion_results, j)
       ELSE UNCHANGED <<output_files, conversion_results>>
    /\ UNCHANGED error_msg
    /\ http' = NoResponse
    /\ UNCHANGED <<geometry, upload_files, next_id, pc, output_formats, is_point_cloud,
                   i, results>>

(***************************************************************************)
(* The worker thread, convert_file_async_debug (app.py:147-258), and the   *)
(* pipeline it calls, PLYConverter.convert_ply (ply_converter.py:399-499). *)
(* What a library call does to the worker's own mesh is left out here; the *)
(* outcome of a call that can raise or can take either branch is chosen    *)
(* with \E.                                                                *)
(***************************************************************************)
WorkerFrame == <<conversion_results, upload_files, output_files, next_id,
                 output_formats, is_point_cloud, results, geometry>>

Goto(j, p) == pc' = [pc EXCEPT ![j] = p]

\* Any of the callback's call sites.  update_progress (ply_converter.py:404)
\* passes its arguments on to progress_callback.
WorkerCallback(j) ==
    /\ pc[j] \in CallbackSites
    /\ conversion_progress' =
         progress_callback(conversion_progress, j,
                           site_message(pc[j], j), site_progress(pc[j], j))
    /\ Goto(j, site_next(pc[j], j))
    /\ i' = IF pc[j] = "P463" THEN [i EXCEPT ![j] = 0] ELSE i
    /\ results' = IF pc[j] = "P463" THEN [results EXCEPT ![j] = {}]
                  ELSE results
    /\ Raise(j, pc[j] = "P498", conversion_failed(error_msg[j]))
    /\ http' = NoResponse
    /\ UNCHANGED <<geometry, conversion_results, upload_files, output_files, next_id,
                   output_formats, is_point_cloud>>

\* app.py:167-172: from ply_converter import PLYConverter, or RuntimeError
ImportConverter(j) ==
    /\ pc[j] = "L168"
    /\ \E ok \in BOOLEAN :
          /\ Goto(j, IF ok THEN "L175" ELSE "L242")
          /\ Raise(j, ~ok, "Failed to import PLYConverter")
    /\ http' = NoResponse
    /\ UNCHANGED <<conversion_progress, i, WorkerFrame>>

\* app.py:187-188: the input file must exist
CheckInputFile(j) ==
    /\ pc[j] = "L187"
    /\ Goto(j, IF j \in upload_files THEN "L200" ELSE "L242")
    /\ Raise(j, j \notin upload_files, "Input file not found")
    /\ http' = NoResponse
    /\ UNCHANGED <<conversion_progress, i, WorkerFrame>>

\* ply_converter.py:413-417: load_ply_file returns a mesh or a point cloud,
\* or raises when both parsers fail
LoadPly(j) ==
    /\ pc[j] = "P413"
    /\ \E outcome \in {"mesh", "point_cloud", "raise"} :
          /\ Goto(j, IF outcome = "raise" THEN "P498" ELSE "P419")
          /\ Raise(j, outcome = "raise", "Failed to load PLY file")
          /\ is_point_cloud' =
               [is_point_cloud EXCEPT ![j] = (outcome = "point_cloud")]
    /\ http' = NoResponse
    /\ UNCHANGED <<geometry, conversion_progress, conversion_results, upload_files,
                   output_files, next_id, output_formats, i, results>>

\* ply_converter.py:425-431: precise_poisson_reconstruction returns a mesh
\* or None (it catches its own exceptions)
Reconstruct(j) ==
    /\ pc[j] = "P425"
    /\ \E mesh_is_none \in BOOLEAN :
          Goto(j, IF mesh_is_none THEN "P428" ELSE "P431")
    /\ UNCHANGED error_msg
    /\ http' = NoResponse
    /\ UNCHANGED <<conversion_progress, i, WorkerFrame>>

\* ply_converter.py:435-439: trimesh.Trimesh(vertices, faces) and the colour
\* assignment, outside any inner try: an exception goes to line 494
BuildMesh(j) ==
    /\ pc[j] = "P435"
    /\ \E ok \in BOOLEAN :
          /\ Goto(j, IF ok THEN "P440" ELSE "P498")
          /\ Raise(j, ~ok, "Trimesh failed")
    /\ http' = NoResponse
    /\ UNCHANGED <<conversion_progress, i, WorkerFrame>>

\* Faulty variant: the first export that raises ends the loop (break for continue).
ExportFormat_break(j) ==
    /\ pc[j] = "P479"
    /\ LET fmt == output_formats[j][i[j] + 1] IN
       \E outcome \in {"written", "raise", "no_file"} :
          /\ output_files' = IF outcome = "written"
                             THEN output_files \cup {<<j, fmt>>}
                             ELSE output_files
          /\ results' = IF outcome = "raise" THEN results
                        ELSE [results EXCEPT ![j] = @ \cup {fmt}]
          /\ i' = IF outcome = "raise" THEN i ELSE [i EXCEPT ![j] = @ + 1]
          /\ Goto(j, IF outcome # "raise" /\ i[j] + 1 < Len(output_formats[j])
                     THEN "P473" ELSE "P488")
    /\ UNCHANGED error_msg
    /\ http' = NoResponse
    /\ UNCHANGED <<geometry, conversion_progress, conversion_results, upload_files,
                   next_id, output_formats, is_point_cloud>>

\* ply_converter.py:475-486: one export.  mesh.export writes the file and
\* the format is added to results, or it raises and the loop continues; a
\* call that returns without leaving a file is what app.py:223 looks for.
ExportFormat(j) ==
    /\ pc[j] = "P479"
    /\ LET fmt == output_formats[j][i[j] + 1] IN
       \E outcome \in {"written", "raise", "no_file"} :
          /\ output_files' = IF outcome = "written"
                             THEN output_files \cup {<<j, fmt>>}
                             ELSE output_files
          /\ results' = IF outcome = "raise" THEN results
                        ELSE [results EXCEPT ![j] = @ \cup {fmt}]
    /\ i' = [i EXCEPT ![j] = @ + 1]
    /\ Goto(j, IF i[j] + 1 < Len(output_formats[j]) THEN "P473" ELSE "P488")
    /\ UNCHANGED error_msg
    /\ http' = NoResponse
    /\ UNCHANGED <<geometry, conversion_progress, conversion_results, upload_files,
                   next_id, output_formats, is_point_cloud>>

\* ply_converter.py:488-489: if not results: raise RuntimeError
CheckExported(j) ==
    /\ pc[j] = "P488"
    /\ Goto(j, IF results[j] = {} THEN "P498" ELSE "P491")
    /\ Raise(j, results[j] = {}, "No files were successfully exported")
    /\ http' = NoResponse
    /\ UNCHANGED <<conversion_progress, i, WorkerFrame>>

\* app.py:221-228: the results whose file exists
verified_results(j) == { f \in results[j] : <<j, f>> \in output_files }

\* app.py:230-234: raise when nothing is verified, else
\* conversion_results[conversion_id] = verified_results
StoreResults(j) ==
    /\ pc[j] = "L221"
    /\ IF verified_results(j) = {}
       THEN Goto(j, "L242") /\ UNCHANGED conversion_results
       ELSE /\ conversion_results' =
                 Put(conversion_results, j, verified_results(j))
            /\ Goto(j, "L235")
    /\ Raise(j, verified_results(j) = {},
             "No output files were created successfully")
    /\ http' = NoResponse
    /\ UNCHANGED <<geometry, conversion_progress, upload_files, output_files, next_id,
                   output_formats, is_point_cloud, i, results>>

\* One write of a field of conversion_progress[j] at position p.  Without the
\* entry the subscript raises KeyError, and control goes to onKeyError.
WriteField(j, p, field, value, next, onKeyError) ==
    /\ pc[j] = p
    /\ IF j \in DOMAIN conversion_progress
       THEN /\ conversion_progress' =
                 [conversion_progress EXCEPT ![j][field] = value]
            /\ Goto(j, next)
       ELSE /\ UNCHANGED conversion_progress
            /\ Goto(j, onKeyError)
    /\ Raise(j, j \notin DOMAIN conversion_progress, "KeyError")
    /\ http' = NoResponse
    /\ UNCHANGED <<i, WorkerFrame>>

\* app.py:235
SetCompleted(j) == WriteField(j, "L235", "status", "completed", "L236", "L242")

\* Faulty variant: line 236 reports the 100 through the callback.
SetProgress100_callback(j) ==
    /\ pc[j] = "L236"
    /\ conversion_progress' =
         progress_callback(conversion_progress, j, "Conversion completed!", 100)
    /\ Goto(j, "L237")
    /\ UNCHANGED error_msg
    /\ http' = NoResponse
    /\ UNCHANGED <<i, WorkerFrame>>

\* app.py:236
SetProgress100(j) == WriteField(j, "L236", "progress", 100, "L237", "L242")

\* app.py:237
SetCompletedMessage(j) ==
    WriteField(j, "L237", "message", "Conversion completed!", "L254", "L242")

\* app.py:241-247: the except clause tests the entry before writing to it; the
\* exception is dropped where the clause ends
ExceptEnter(j) ==
    /\ pc[j] = "L242"
    /\ Goto(j, IF j \in DOMAIN conversion_progress THEN "L248" ELSE "L254")
    /\ error_msg' = IF j \in DOMAIN conversion_progress THEN error_msg
                    ELSE [error_msg EXCEPT ![j] = ""]
    /\ http' = NoResponse
    /\ UNCHANGED <<conversion_progress, i, WorkerFrame>>

\* app.py:248; a KeyError here leaves the except clause through finally
SetError(j) == WriteField(j, "L248", "status", "error", "L249", "L254")

\* Faulty variant: the input file is removed at the end of the try block, not in a
\* finally clause, so that the except clause ends the worker.
SetErrorMessage_return(j) ==
    WriteField(j, "L249", "message", conversion_failed(error_msg[j]),
               "done", "done")

\* app.py:249
SetErrorMessage(j) ==
    WriteField(j, "L249", "message", conversion_failed(error_msg[j]),
               "L254", "L254")

\* Faulty variant: the finally clause empties the upload folder.
RemoveInput_folder(j) ==
    /\ pc[j] = "L254"
    /\ upload_files' = {}
    /\ Goto(j, "done")
    /\ error_msg' = [error_msg EXCEPT ![j] = ""]
    /\ http' = NoResponse
    /\ UNCHANGED <<geometry, conversion_progress, conversion_results, output_files,
                   next_id, output_formats, is_point_cloud, i, results>>

\* app.py:251-258: finally, os.remove(input_path) when the file exists; the
\* worker ends, and its exception with it
RemoveInput(j) ==
    /\ pc[j] = "L254"
    /\ upload_files' = upload_files \ {j}
    /\ Goto(j, "done")
    /\ error_msg' = [error_msg EXCEPT ![j] = ""]
    /\ http' = NoResponse
    /\ UNCHANGED <<geometry, conversion_progress, conversion_results, output_files,
                   next_id, output_formats, is_point_cloud, i, results>>

\* The worker's steps but the call of load_ply_file.
WorkerSteps(j) ==
    \/ WorkerCallback(j)
    \/ ImportConverter(j)
    \/ CheckInputFile(j)
    \/ Reconstruct(j)
    \/ BuildMesh(j)
    \/ ExportFormat(j)
    \/ CheckExported(j)
    \/ StoreResults(j)
    \/ SetCompleted(j)
    \/ SetProgress100(j)
    \/ SetCompletedMessage(j)
    \/ ExceptEnter(j)
    \/ SetError(j)
    \/ SetErrorMessage(j)
    \/ RemoveInput(j)

convert_file_async_debug(j) == WorkerSteps(j) \/ LoadPly(j)

(***************************************************************************)
(* The service: requests arrive at any time, for any id and format.        *)
(***************************************************************************)
FormatNames == {"stl", "obj", "badfmt"}

Next ==
    \/ upload_file
    \/ \E j \in Jobs : get_progress(j)
    \/ \E j \in Jobs, f \in FormatNames : download_file(j, f)
    \/ \E j \in Jobs : cleanup_conversion(j)
    \/ \E j \in Jobs : convert_file_async_debug(j)

Spec == Init /\ [][Next]_vars

\* The worker is a thread of its own: the scheduler lets it take its next
\* step sooner or later.  No request is ever bound to arrive.
FairSpec == Spec /\ \A j \in Jobs : WF_vars(convert_file_async_debug(j))

(***************************************************************************)
(* Jobs side by side.  Every accepted upload starts a thread of its own    *)
(* (app.py:123-128), and the threads share the two dictionaries and the    *)
(* two folders.  PairSpec starts where /upload has accepted MaxPair files  *)
(* for stl and none of the workers has taken a step yet, and interleaves   *)
(* the workers' steps.                                                     *)
(***************************************************************************)
Pair == 1..MaxPair

PairInit ==
    /\ conversion_progress =
           [j \in Pair |->
               [status |-> "starting", progress |-> 0,
                message |-> "Initializing smooth surface conversion..."]]
    /\ conversion_results = [j \in {} |-> {}]
    /\ upload_files = Pair
    /\ output_files = {}
    /\ next_id = MaxPair
    /\ pc = [j \in Jobs |-> IF j \in Pair THEN "L165" ELSE "none"]
    /\ output_formats = [j \in Jobs |-> IF j \in Pair THEN <<"stl">> ELSE <<>>]
    /\ is_point_cloud = [j \in Jobs |-> FALSE]
    /\ i = [j \in Jobs |-> 0]
    /\ results = [j \in Jobs |-> {}]
    /\ error_msg = [j \in Jobs |-> ""]
    /\ http = NoResponse
    /\ densities = <<>>
    /\ density_filter = NoFilter
    /\ mesh = NoMesh
    /\ fixed = NotFixed
    /\ recon = NoRecon
    /\ loader = NoLoad
    /\ smooth = NoSmooth

PairNext == \E j \in Jobs : convert_file_async_debug(j)

PairSpec == PairInit /\ [][PairNext]_vars

(***************************************************************************)
(* The progress sink after the job.  progress_callback is a closure handed *)
(* to convert_ply; nothing in it looks at the job's status, so whoever     *)
(* still holds it when the worker has finished can call it.  SinkSpec adds *)
(* such calls to the service.                                              *)
(***************************************************************************)
LateCallback(j) ==
    /\ pc[j] = "done"
    /\ \E progress \in {None, 50} :
          conversion_progress' =
              progress_callback(conversion_progress, j, "late", progress)
    /\ UNCHANGED error_msg
    /\ http' = NoResponse
    /\ UNCHANGED <<pc, i, WorkerFrame>>

SinkSpec == Init /\ [][Next \/ \E j \in Jobs : LateCallback(j)]_vars

(***************************************************************************)
(* The density filter of precise_poisson_reconstruction                    *)
(* (ply_converter.py:204-222).  Densities are integers (the unit is free). *)
(* The standard deviation is a square root, so thresh is never written     *)
(* down: it is compared.  With S the sum, Q the sum of squares and N the   *)
(* number of densities, mean = S/N and std = sqrt(N*Q - S*S)/N, so that    *)
(*    mean - 2*std <= p/q  iff  q*S - p*N <= 2*q*sqrt(N*Q - S*S),          *)
(* which squares to integers.  Rounding of the floats is left out.         *)
(***************************************************************************)
MaxDensity == 7

MaxLen == 3

RECURSIVE Sum(_)
Sum(d) == IF d = <<>> THEN 0 ELSE Head(d) + Sum(Tail(d))

RECURSIVE SumSq(_)
SumSq(d) == IF d = <<>> THEN 0 ELSE Head(d) * Head(d) + SumSq(Tail(d))

RECURSIVE MinOf(_)
MinOf(d) == IF Len(d) = 1 THEN Head(d) ELSE Min(Head(d), MinOf(Tail(d)))

\* N*N times np.std(densities) squared
ScaledVariance(d) == Len(d) * SumSq(d) - Sum(d) * Sum(d)

\* mean_density - 2 * std_density <= p/q, and < p/q  (q > 0)
stat_leq(d, p, q) ==
    LET u == q * Sum(d) - p * Len(d) IN
    u <= 0 \/ u * u <= 4 * q * q * ScaledVariance(d)

stat_lt(d, p, q) ==
    LET u == q * Sum(d) - p * Len(d) IN
    u < 0 \/ u * u < 4 * q * q * ScaledVariance(d)

\* np.min(densities) * 1.1 <= p/q, and < p/q
floor_leq(d, p, q) == 11 * MinOf(d) * q <= 10 * p

floor_lt(d, p, q) == 11 * MinOf(d) * q < 10 * p

\* thresh = max(mean_density - 2 * std_density, np.min(densities) * 1.1),
\* compared with p/q
thresh_leq(d, p, q) == stat_leq(d, p, q) /\ floor_leq(d, p, q)

thresh_lt(d, p, q) == stat_lt(d, p, q) /\ floor_lt(d, p, q)

\* Which argument max() returns: the first unless the second is larger.
thresh_argument(d) ==
    IF stat_lt(d, 11 * MinOf(d), 10) THEN "min * 1.1" ELSE "mean - 2 * std"

\* vertices_to_remove = densities < thresh
below_thresh(d) == { k \in 1..Len(d) : ~thresh_leq(d, d[k], 1) }

DensityInputs ==
    UNION { [1..n -> 0..MaxDensity] : n \in 0..MaxLen }

\* Lines 205-216; without densities the filter is skipped.
FilterDensities ==
    /\ density_filter.stage = "input"
    /\ density_filter' =
         IF Len(densities) > 0
         THEN [stage |-> "filtered",
               thresh |-> thresh_argument(densities),
               vertices_to_remove |-> below_thresh(densities)]
         ELSE [stage |-> "skipped", thresh |-> "", vertices_to_remove |-> {}]
    /\ UNCHANGED <<service, densities, mesh, fixed, recon, loader, smooth>>

DensityInit ==
    /\ ServiceInit
    /\ densities \in DensityInputs
    /\ density_filter =
         [stage |-> "input", thresh |-> "", vertices_to_remove |-> {}]
    /\ mesh = NoMesh
    /\ fixed = NotFixed
    /\ recon = NoRecon
    /\ loader = NoLoad
    /\ smooth = NoSmooth

DensitySpec == DensityInit /\ [][FilterDensities]_vars

(***************************************************************************)
(* fix_face_orientation_and_normals (ply_converter.py:59-147) and the      *)
(* final cleanup of convert_ply (ply_converter.py:455-461).                *)
(*                                                                         *)
(* A mesh is its list of faces, triples of vertex indices, as it is after  *)
(* steps 1 and 2, with for every face whether line 99 finds its normal to  *)
(* point away from the centre.  The three cleanup calls are trimesh's:     *)
(*   remove_degenerate_faces       drops the faces without area; here,     *)
(*                                 those that repeat a vertex index        *)
(*   remove_duplicate_faces        keeps one face of every set of faces    *)
(*                                 with the same three vertices: it        *)
(*                                 compares the rows of                    *)
(*                                 np.sort(faces, axis=1), so the winding  *)
(*                                 does not tell two faces apart           *)
(*   remove_unreferenced_vertices  drops the vertices no face uses and     *)
(*                                 renumbers the others                    *)
(***************************************************************************)
MaxFaces == 5

\* The faces a mesh is made of here: two windings of one triangle, a second
\* triangle, and a face without area.
FaceChoices == { <<0, 1, 2>>, <<0, 2, 1>>, <<1, 2, 3>>, <<0, 0, 1>> }

\* faces[:, [0, 2, 1]]
flip(f) == <<f[1], f[3], f[2]>>

degenerate(f) == f[1] = f[2] \/ f[2] = f[3] \/ f[1] = f[3]

corners(f) == {f[1], f[2], f[3]}

\* The face list without its degenerate faces, in order.
remove_degenerate_faces(faces) ==
    LET Test(f) == ~degenerate(f) IN SelectSeq(faces, Test)

\* The face list with the first face of every set of corners, in order.
RECURSIVE remove_duplicate_faces(_)
remove_duplicate_faces(faces) ==
    IF faces = <<>> THEN <<>>
    ELSE LET front == remove_duplicate_faces(SubSeq(faces, 1, Len(faces) - 1))
             last == faces[Len(faces)]
         IN IF \E k \in 1..Len(front) : corners(front[k]) = corners(last)
            THEN front ELSE Append(front, last)

remove_unreferenced_vertices(faces) ==
    LET used == UNION { corners(faces[k]) : k \in 1..Len(faces) }
        renumber(v) == Cardinality({ w \in used : w < v })
    IN [k \in 1..Len(faces) |->
          <<renumber(faces[k][1]), renumber(faces[k][2]),
            renumber(faces[k][3])>>]

cleanup(faces) ==
    remove_unreferenced_vertices(
        remove_duplicate_faces(remove_degenerate_faces(faces)))

\* np.sum(dot_products > 0)
outward_faces(m) == Cardinality({ k \in 1..Len(m.outward) : m.outward[k] })

\* outward_ratio < 0.6, with outward_ratio = outward_faces / total_faces.
\* The quotient of two small integers and the literal 0.6 round the same
\* way, so the comparison of the floats is the comparison of the fractions.
needs_double_siding(m) ==
    Len(m.faces) > 0 /\ 10 * outward_faces(m) < 6 * Len(m.faces)

\* The steps of the fixer whose library calls can raise: fix_normals (69),
\* unify_normals (76), the try block of step 3 (82-129) and the cleanup
\* calls of step 4 (137-139).
Steps == {"step 1", "step 2", "step 3", "step 4"}

\* What the library calls do to one mesh: the steps that raise when they
\* are reached.
Raises == SUBSET Steps

\* Faulty variant: steps 1 and 2 without a try of their own, so that their
\* exceptions reach the except clause of line 145.
fix_face_orientation_and_normals_bare(m, raised) ==
    IF raised \cap {"step 1", "step 2"} # {} \/ {"step 3", "step 4"} \subseteq raised
    THEN [stage |-> "fixed", faces |-> m.faces, double_sided |-> FALSE,
          raised |-> raised, returned |-> "line 147"]
    ELSE IF "step 3" \notin raised /\ needs_double_siding(m)
    THEN [stage |-> "fixed",
          faces |-> cleanup(m.faces \o [k \in 1..Len(m.faces) |-> flip(m.faces[k])]),
          double_sided |-> TRUE, raised |-> raised, returned |-> "line 129"]
    ELSE IF "step 4" \in raised
    THEN [stage |-> "fixed", faces |-> m.faces, double_sided |-> FALSE,
          raised |-> raised, returned |-> "line 147"]
    ELSE [stage |-> "fixed", faces |-> cleanup(m.faces),
          double_sided |-> FALSE, raised |-> raised, returned |-> "line 143"]

\* Lines 59-147: the mesh returned, and by which return statement.  The
\* exceptions of steps 1 and 2 end in their own except clauses (71, 78);
\* mesh.outward is the mesh as step 3 finds it after them.  Line 129
\* returns the double-sided mesh; without it, or after an exception in
\* step 3 (133), the original mesh goes through step 4 and line 143
\* returns it; after an exception in step 4 line 147 returns it as it is.
fix_face_orientation_and_normals(m, raised) ==
    IF "step 3" \notin raised /\ needs_double_siding(m)
    THEN [stage |-> "fixed",
          faces |-> cleanup(m.faces \o [k \in 1..Len(m.faces) |-> flip(m.faces[k])]),
          double_sided |-> TRUE, raised |-> raised, returned |-> "line 129"]
    ELSE IF "step 4" \in raised
    THEN [stage |-> "fixed", faces |-> m.faces, double_sided |-> FALSE,
          raised |-> raised, returned |-> "line 147"]
    ELSE [stage |-> "fixed", faces |-> cleanup(m.faces),
          double_sided |-> FALSE, raised |-> raised, returned |-> "line 143"]

\* The normal of line 87 is zero for a face without area, opposite for the
\* two windings of a triangle, and the same for a face listed twice.
MeshInputs ==
    { m \in UNION { [faces : [1..n -> FaceChoices],
                     outward : [1..n -> BOOLEAN]] : n \in 0..MaxFaces } :
        \A k \in 1..Len(m.faces) :
           /\ degenerate(m.faces[k]) => ~m.outward[k]
           /\ \A h \in 1..Len(m.faces) :
                 /\ m.faces[h] = m.faces[k] => m.outward[h] = m.outward[k]
                 /\ m.faces[h] = flip(m.faces[k])
                    => ~(m.outward[h] /\ m.outward[k]) }

\* ply_converter.py:445
FixOrientation ==
    /\ fixed.stage = "judge"
    /\ \E raised \in Raises :
          fixed' = fix_face_orientation_and_normals(mesh, raised)
    /\ UNCHANGED <<service, densities, density_filter, mesh, recon, loader, smooth>>

\* ply_converter.py:455-461: the three calls in a try of their own; when the
\* first raises the mesh stays as it is.
FinalCleanup ==
    /\ fixed.stage = "fixed"
    /\ \E raised \in BOOLEAN :
          fixed' = [fixed EXCEPT !.stage = "final",
                                 !.faces = IF raised THEN @ ELSE cleanup(@)]
    /\ UNCHANGED <<service, densities, density_filter, mesh, recon, loader, smooth>>

OrientInit ==
    /\ ServiceInit
    /\ densities = <<>>
    /\ density_filter = NoFilter
    /\ mesh \in MeshInputs
    /\ fixed = [NotFixed EXCEPT !.stage = "judge"]
    /\ recon = NoRecon
    /\ loader = NoLoad
    /\ smooth = NoSmooth

OrientSpec == OrientInit /\ [][FixOrientation \/ FinalCleanup]_vars

(***************************************************************************)
(* The reconstruction of a point cloud (ply_converter.py:420-431):         *)
(* precise_poisson_reconstruction (150-261), then, when it returns None,   *)
(* create_mesh_from_points_basic (264-299).  A mesh is the number of its   *)
(* vertices and of its faces.  What the libraries do is an outcome chosen  *)
(* with \E: Open3D's Poisson call with the filter and cleanup after it     *)
(* raises or leaves some vertices and triangles; trimesh's convex_hull     *)
(* raises (always with fewer than four points) or returns a closed         *)
(* triangulated hull on some of the points.                                *)
(***************************************************************************)
MaxPoints == 5

NoneMesh == [source |-> "None", vertices |-> 0, faces |-> 0]

NotCalled == [raises |-> FALSE, vertices |-> 0, faces |-> 0]

\* What lines 156-237 do: raise, or leave a mesh of v vertices, f triangles.
PoissonOutcomes ==
    [raises : {TRUE}, vertices : {0}, faces : {0}]
    \cup [raises : {FALSE}, vertices : 0..MaxPoints, faces : 0..MaxPoints]

\* Faulty variant: the mesh is returned without the test of line 243.
precise_poisson_reconstruction_untested(has_open3d, outcome) ==
    IF ~has_open3d \/ outcome.raises THEN NoneMesh
    ELSE [source |-> "poisson", vertices |-> outcome.vertices,
          faces |-> outcome.faces]

\* Lines 153-261: None without Open3D (153), after an exception (259-261)
\* and when the mesh has no vertex or no triangle (243, 256-257).
precise_poisson_reconstruction(has_open3d, outcome) ==
    IF ~has_open3d THEN NoneMesh
    ELSE IF outcome.raises THEN NoneMesh
    ELSE IF outcome.vertices > 0 /\ outcome.faces > 0
         THEN [source |-> "poisson", vertices |-> outcome.vertices,
               faces |-> outcome.faces]
         ELSE NoneMesh

\* What line 270 (and the colour mapping after it) does: raise, or return
\* the hull on v of the points.
HullOutcomes(points) ==
    [raises : {TRUE}, vertices : {0}, faces : {0}]
    \cup { [raises |-> FALSE, vertices |-> v, faces |-> 2 * v - 4] :
              v \in 4..points }

\* Lines 268-299: the hull, or trimesh.creation.box after any exception.
create_mesh_from_points_basic(outcome) ==
    IF outcome.raises
    THEN [source |-> "box", vertices |-> 8, faces |-> 12]
    ELSE [source |-> "convex_hull", vertices |-> outcome.vertices,
          faces |-> outcome.faces]

\* ply_converter.py:425
PoissonReconstruction ==
    /\ recon.stage = "input"
    /\ \E outcome \in IF recon.has_open3d THEN PoissonOutcomes ELSE {NotCalled} :
          recon' = [recon EXCEPT
                       !.stage = "poisson",
                       !.poisson = outcome,
                       !.mesh = precise_poisson_reconstruction(
                                    recon.has_open3d, outcome)]
    /\ UNCHANGED <<service, densities, density_filter, mesh, fixed, loader,
                   smooth>>

\* ply_converter.py:427-431: if mesh is None the basic reconstruction
BasicReconstruction ==
    /\ recon.stage = "poisson"
    /\ IF recon.mesh = NoneMesh
       THEN \E outcome \in HullOutcomes(recon.points) :
               recon' = [recon EXCEPT
                            !.stage = "fixer",
                            !.hull = outcome,
                            !.mesh = create_mesh_from_points_basic(outcome)]
       ELSE recon' = [recon EXCEPT !.stage = "fixer"]
    /\ UNCHANGED <<service, densities, density_filter, mesh, fixed, loader,
                   smooth>>

ReconInit ==
    /\ ServiceInit
    /\ densities = <<>>
    /\ density_filter = NoFilter
    /\ mesh = NoMesh
    /\ fixed = NotFixed
    /\ recon \in [stage : {"input"}, points : 1..MaxPoints,
                  has_open3d : BOOLEAN, poisson : {NotCalled},
                  hull : {NotCalled}, mesh : {NoneMesh}]
    /\ loader = NoLoad
    /\ smooth = NoSmooth

ReconSpec ==
    ReconInit /\ [][PoissonReconstruction \/ BasicReconstruction]_vars

(***************************************************************************)
(* The smoothing level on its way through the pipeline: the validation of  *)
(* /upload (app.py:96-98), the Poisson parameters                          *)
(* (ply_converter.py:187-193, 231-237) and smooth_mesh_basic               *)
(* (ply_converter.py:369-393), called at ply_converter.py:449-451.         *)
(* convert_ply gets the level from /upload, validated, or from any other   *)
(* caller, as it is.  The mesh has the method smoothed or has not, and the *)
(* call of it that raises, if any, is an input.                            *)
(***************************************************************************)
SMOOTHING_LEVELS == {"light", "medium", "high", "ultra"}

\* The levels a caller asks for: the four, and one that is none of them.
RequestedLevels == SMOOTHING_LEVELS \cup {"extreme"}

\* The calls of smoothed that may raise: none (0), or the k-th.
MaxRaiseAt == 5

\* app.py:97-98
validated_level(level) ==
    IF level \notin SMOOTHING_LEVELS THEN "medium" ELSE level

\* Faulty variant: a level that is not in the map gets the depth of light.
poisson_depth_low(level) ==
    CASE level = "light" -> 8
      [] level = "medium" -> 9
      [] level = "high" -> 10
      [] level = "ultra" -> 11
      [] OTHER -> 8

\* ply_converter.py:187-193: depth_map.get(smoothing_level, 9)
poisson_depth(level) ==
    CASE level = "light" -> 8
      [] level = "medium" -> 9
      [] level = "high" -> 10
      [] level = "ultra" -> 11
      [] OTHER -> 9

\* ply_converter.py:231-237: the iterations of filter_smooth_laplacian, 0
\* when it is not called
extra_smoothing(level) ==
    IF level \in {"high", "ultra"}
    THEN (CASE level = "high" -> 1 [] level = "ultra" -> 2 [] OTHER -> 1)
    ELSE 0

\* ply_converter.py:372-379: iterations_map.get(smoothing_level, 2)
smoothing_iterations(level) ==
    CASE level = "light" -> 1
      [] level = "medium" -> 2
      [] level = "high" -> 3
      [] level = "ultra" -> 5
      [] OTHER -> 2

\* Lines 369-393: the number of calls of smoothed that returned, and which
\* mesh is returned: without the method the loop ends at once (line 385)
\* and after an exception the mesh passed in is returned (line 393).
smooth_mesh_basic(level, has_smoothed, raise_at) ==
    LET iterations == smoothing_iterations(level) IN
    IF ~has_smoothed
    THEN [called |-> TRUE, passes |-> 0, returned |-> "mesh"]
    ELSE IF raise_at \in 1..iterations
    THEN [called |-> TRUE, passes |-> raise_at - 1, returned |-> "mesh"]
    ELSE [called |-> TRUE, passes |-> iterations, returned |-> "smoothed"]

NotSmoothed == [called |-> FALSE, passes |-> 0, returned |-> "mesh"]

\* The level reaches convert_ply: through /upload, or as the caller gave it.
ReceiveLevel ==
    /\ smooth.stage = "request"
    /\ smooth' = [smooth EXCEPT
                     !.stage = "convert",
                     !.level = IF smooth.caller = "upload"
                               THEN validated_level(smooth.requested)
                               ELSE smooth.requested]
    /\ UNCHANGED <<service, densities, density_filter, mesh, fixed, recon,
                   loader>>

\* ply_converter.py:420-440: a point cloud is reconstructed with the
\* level's Poisson parameters, a mesh is taken as it is.
ReconstructWithLevel ==
    /\ smooth.stage = "convert"
    /\ smooth' = IF smooth.is_point_cloud
                 THEN [smooth EXCEPT
                          !.stage = "mesh",
                          !.depth = poisson_depth(smooth.level),
                          !.extra = extra_smoothing(smooth.level)]
                 ELSE [smooth EXCEPT !.stage = "mesh"]
    /\ UNCHANGED <<service, densities, density_filter, mesh, fixed, recon,
                   loader>>

\* Faulty variant: the smoother runs on every mesh.
SmoothMesh_always ==
    /\ smooth.stage = "mesh"
    /\ smooth' = [smooth EXCEPT
                     !.stage = "done",
                     !.smoother = smooth_mesh_basic(smooth.level,
                                      smooth.has_smoothed, smooth.raise_at)]
    /\ UNCHANGED <<service, densities, density_filter, mesh, fixed, recon,
                   loader>>

\* ply_converter.py:449-451: if not is_point_cloud
SmoothMesh ==
    /\ smooth.stage = "mesh"
    /\ smooth' = [smooth EXCEPT
                     !.stage = "done",
                     !.smoother =
                         IF ~smooth.is_point_cloud
                         THEN smooth_mesh_basic(smooth.level,
                                  smooth.has_smoothed, smooth.raise_at)
                         ELSE NotSmoothed]
    /\ UNCHANGED <<service, densities, density_filter, mesh, fixed, recon,
                   loader>>

SmoothInit ==
    /\ ServiceInit
    /\ densities = <<>>
    /\ density_filter = NoFilter
    /\ mesh = NoMesh
    /\ fixed = NotFixed
    /\ recon = NoRecon
    /\ loader = NoLoad
    /\ smooth \in [stage : {"request"}, caller : {"upload", "convert_ply"},
                   requested : RequestedLevels, level : {""},
                   is_point_cloud : BOOLEAN, has_smoothed : BOOLEAN,
                   raise_at : 0..MaxRaiseAt, depth : {0}, extra : {0},
                   smoother : {NotSmoothed}]

SmoothSpec ==
    SmoothInit /\ [][ReceiveLevel \/ ReconstructWithLevel \/ SmoothMesh]_vars

(***************************************************************************)
(* load_ply_file (ply_converter.py:302-366) and the job that calls it.     *)
(* What the two parsers do with the file is an input: trimesh.load raises, *)
(* or returns an object without vertices (a scene), or a geometry whose    *)
(* face list is absent (None), empty or not, and the colour conversion of  *)
(* lines 312-317 raises or not; PlyData.read and the lines after it raise, *)
(* or find a face element or none, with the property vertex_indices or     *)
(* without, of some number of rows.  LoaderSpec is one job of such a file  *)
(* from its upload on, with the requests for it.                           *)
(***************************************************************************)
MaxLoadFaces == 2

PrimaryOutcomes ==
    [kind : {"raise", "no vertices"}, faces : {None}, colors_raise : {FALSE}]
    \cup [kind : {"geometry"}, faces : {None} \cup 0..MaxLoadFaces,
          colors_raise : BOOLEAN]

SecondaryOutcomes ==
    [kind : {"raise"}, face_element : {FALSE}, vertex_indices : {FALSE},
     faces : {0}]
    \cup [kind : {"parsed"}, face_element : {FALSE}, vertex_indices : {FALSE},
          faces : {0}]
    \cup [kind : {"parsed"}, face_element : {TRUE}, vertex_indices : {FALSE},
          faces : {0}]
    \cup [kind : {"parsed"}, face_element : {TRUE}, vertex_indices : {TRUE},
          faces : 0..MaxLoadFaces]

NotLoaded == [parser |-> "none", raised |-> FALSE, faces |-> None,
              is_point_cloud |-> FALSE]

\* 'is_point_cloud': faces is None or len(faces) == 0
no_faces(faces) == faces = None \/ faces = 0

\* Lines 304-329: the dictionary returned by the first try block, or
\* NotLoaded when control leaves the block without a return.
load_with_trimesh(primary) ==
    IF primary.kind = "geometry" /\ ~primary.colors_raise
    THEN LET faces == IF primary.faces # None /\ primary.faces > 0
                      THEN primary.faces ELSE None
         IN [parser |-> "trimesh", raised |-> FALSE, faces |-> faces,
             is_point_cloud |-> no_faces(faces)]
    ELSE NotLoaded

\* Lines 335-366: the dictionary returned by the second try block, or the
\* RuntimeError of line 366.  Line 355 iterates over the column
\* face_data['vertex_indices'], whose items are the faces' index arrays, and
\* calls list(face[0]) on each: face[0] is an integer, so the first row of
\* a face element raises TypeError, and only a face element without rows
\* gives a face list (an empty one).
load_with_plyfile(secondary) ==
    IF \/ secondary.kind = "raise"
       \/ /\ secondary.face_element
          /\ secondary.vertex_indices
          /\ secondary.faces > 0
    THEN [parser |-> "plyfile", raised |-> TRUE, faces |-> None,
          is_point_cloud |-> FALSE]
    ELSE LET faces == IF secondary.face_element /\ secondary.vertex_indices
                      THEN secondary.faces ELSE None
         IN [parser |-> "plyfile", raised |-> FALSE, faces |-> faces,
             is_point_cloud |-> no_faces(faces)]

\* Faulty variant: the second parser is not tried.
load_ply_file_primary_only(primary, secondary) ==
    IF load_with_trimesh(primary) # NotLoaded
    THEN load_with_trimesh(primary)
    ELSE [parser |-> "trimesh", raised |-> TRUE, faces |-> None,
          is_point_cloud |-> FALSE]

load_ply_file(primary, secondary) ==
    IF load_with_trimesh(primary) # NotLoaded
    THEN load_with_trimesh(primary)
    ELSE load_with_plyfile(secondary)

\* ply_converter.py:412-416, with the file's parsers
LoadPlyFile(j) ==
    /\ pc[j] = "P413"
    /\ loader.stage = "input"
    /\ LET ply_data == load_ply_file(loader.primary, loader.secondary) IN
          /\ loader' = [loader EXCEPT !.stage = "called",
                                      !.ply_data = ply_data]
          /\ Goto(j, IF ply_data.raised THEN "P498" ELSE "P419")
          /\ Raise(j, ply_data.raised, "Failed to load PLY file")
          /\ is_point_cloud' =
               [is_point_cloud EXCEPT ![j] = ply_data.is_point_cloud]
    /\ http' = NoResponse
    /\ UNCHANGED <<conversion_progress, conversion_results, upload_files,
                   output_files, next_id, output_formats, i, results,
                   densities, density_filter, mesh, fixed, recon, smooth>>

\* The first id, as /upload leaves it when it has accepted the file for stl.
TheJob == 1

LoaderInit ==
    /\ conversion_progress =
           Put(<< >>, TheJob,
               [status |-> "starting", progress |-> 0,
                message |-> "Initializing smooth surface conversion..."])
    /\ conversion_results = << >>
    /\ upload_files = {TheJob}
    /\ output_files = {}
    /\ next_id = TheJob
    /\ pc = [j \in Jobs |-> IF j = TheJob THEN "L165" ELSE "none"]
    /\ output_formats = [j \in Jobs |-> IF j = TheJob THEN <<"stl">> ELSE <<>>]
    /\ is_point_cloud = [j \in Jobs |-> FALSE]
    /\ i = [j \in Jobs |-> 0]
    /\ results = [j \in Jobs |-> {}]
    /\ error_msg = [j \in Jobs |-> ""]
    /\ http = NoResponse
    /\ densities = <<>>
    /\ density_filter = NoFilter
    /\ mesh = NoMesh
    /\ fixed = NotFixed
    /\ recon = NoRecon
    /\ loader \in [stage : {"input"}, primary : PrimaryOutcomes,
                   secondary : SecondaryOutcomes, ply_data : {NotLoaded}]
    /\ smooth = NoSmooth

LoaderNext ==
    \/ \E j \in Jobs : get_progress(j)
    \/ \E j \in Jobs, f \in FormatNames : download_file(j, f)
    \/ \E j \in Jobs : cleanup_conversion(j)
    \/ \E j \in Jobs : WorkerSteps(j)
    \/ \E j \in Jobs : LoadPlyFile(j)

LoaderSpec == LoaderInit /\ [][LoaderNext]_vars

(***************************************************************************)
(* Claims                                                                  *)
(***************************************************************************)
Terminal == {"completed", "error"}

HasEntry(j) == j \in DOMAIN conversion_progress

Range(seq) == { seq[k] : k \in 1..Len(seq) }

\* C1: while a job is running, from the worker's first callback until the
\* job is completed or in error, no step lowers the progress percentage of
\* the job's registry entry.
C1_ProgressNeverDecreases ==
    [][\A j \in Jobs :
          (/\ pc[j] \notin {"none", "done"}
           /\ j \in DOMAIN conversion_progress
           /\ j \in DOMAIN conversion_progress')
          => conversion_progress'[j].progress >= conversion_progress[j].progress
      ]_vars

\* C2: an upload whose list of requested formats is empty is rejected: the
\* handler returns an error, creates no registry entry and starts no worker.
C2_EmptyFormatsRejected ==
    (http.op = "upload" /\ http.form = <<>>)
    => /\ http.code >= 400
       /\ ~HasEntry(http.id)
       /\ pc[http.id] = "none"

\* C2, amended: an upload whose list of requested formats is not empty and
\* names no supported format is rejected (error, no registry entry, no
\* worker); an upload whose list is empty is accepted and converted to stl.
C2_NoSupportedFormatRejected ==
    http.op = "upload" =>
       /\ (/\ http.form # <<>>
           /\ \A k \in 1..Len(http.form) : http.form[k] \notin OUTPUT_FORMATS)
          => /\ http.code = 400
             /\ ~HasEntry(http.id)
             /\ http.id \notin DOMAIN conversion_results
             /\ pc[http.id] = "none"
       /\ http.form = <<>>
          => /\ http.code = 200
             /\ HasEntry(http.id)
             /\ pc[http.id] = "L165"
             /\ output_formats[http.id] = <<"stl">>

C2_Witness ==
    /\ http.op = "upload"
    /\ http.form = <<"badfmt">>
    /\ http.code = 400
    /\ http.id \in upload_files

\* C3: the worker's terminal transition is atomic for the handlers: whenever
\* /progress answers for a job, it shows the job completed exactly when the
\* result map holds the job, a completed status comes with progress 100 and
\* the final message, and /download serves a file of the job only then.
C3_TerminalTransitionAtomic ==
    \A j \in Jobs :
       progress_response(j).code = 200
       => /\ progress_response(j).status = "completed"
             <=> j \in DOMAIN conversion_results
          /\ progress_response(j).status = "completed"
             => /\ progress_response(j).progress = 100
                /\ progress_response(j).message = "Conversion completed!"
          /\ \A f \in FormatNames :
                download_response(j, f).code = 200
                => progress_response(j).status = "completed"

C8_LateCallbackIsNoOp ==
    [][\A j \in Jobs :
          (/\ pc[j] = "done"
           /\ j \in DOMAIN conversion_progress
           /\ conversion_progress[j].status \in Terminal
           /\ j \in DOMAIN conversion_progress')
          => /\ conversion_progress'[j] = conversion_progress[j]
             /\ conversion_results' = conversion_results
      ]_vars

\* C9: a registry entry is created with status starting, and its status
\* only ever moves starting -> converting -> completed or error; a
\* completed or error status never changes again.
C9_LifecycleForward ==
    [][\A j \in Jobs :
          /\ (j \notin DOMAIN conversion_progress
              /\ j \in DOMAIN conversion_progress')
             => conversion_progress'[j].status = "starting"
          /\ (j \in DOMAIN conversion_progress
              /\ j \in DOMAIN conversion_progress')
             => \/ conversion_progress'[j].status = conversion_progress[j].status
                \/ /\ conversion_progress[j].status = "starting"
                   /\ conversion_progress'[j].status = "converting"
                \/ /\ conversion_progress[j].status = "converting"
                   /\ conversion_progress'[j].status \in Terminal
      ]_vars

C9_Witness ==
    \E j \in Jobs :
       /\ HasEntry(j)
       /\ conversion_progress[j].status = "error"
       /\ conversion_progress[j].progress = 0
       /\ pc[j] = "done"

\* C10: the export loop attempts every requested format whatever the
\* earlier exports did; the map stored for the job holds exactly the
\* requested formats whose file was written; a job that went through the
\* export stage ends completed when that map is not empty and in error when
\* it is; a request for stl and badfmt is accepted as a request for stl.
C10_ExportPerFormat ==
    /\ \A j \in Jobs :
          /\ pc[j] = "P488" => i[j] = Len(output_formats[j])
          /\ pc[j] \in {"P473", "P479"}
             => /\ i[j] < Len(output_formats[j])
                /\ results[j] \subseteq
                      Range(SubSeq(output_formats[j], 1, i[j]))
          /\ j \in DOMAIN conversion_results
             => /\ conversion_results[j] # {}
                /\ conversion_results[j] =
                      { f \in Range(output_formats[j]) :
                           <<j, f>> \in output_files }
          /\ (pc[j] = "done" /\ HasEntry(j) /\ i[j] = Len(output_formats[j]))
             => /\ conversion_progress[j].status = "completed"
                   <=> \E f \in Range(output_formats[j]) :
                          <<j, f>> \in output_files
                /\ conversion_progress[j].status = "completed"
                   => /\ j \in DOMAIN conversion_results
                      /\ progress_response(j).download_links =
                            conversion_results[j]
                /\ conversion_progress[j].status # "completed"
                   => conversion_progress[j].status = "error"
    /\ (http.op = "upload" /\ http.form = <<"stl", "badfmt">>)
       => /\ http.code = 200
          /\ output_formats[http.id] = <<"stl">>

\* stl and obj were requested, the export of obj raised, and the job is
\* completed with the one download link for stl.
C10_Witness ==
    \E j \in Jobs :
       /\ output_formats[j] = <<"stl", "obj">>
       /\ pc[j] = "done"
       /\ HasEntry(j)
       /\ conversion_progress[j].status = "completed"
       /\ progress_response(j).download_links = {"stl"}
       /\ download_response(j, "stl").code = 200
       /\ download_response(j, "obj").code = 404

\* C4: for densities of positive variance, the threshold of the density
\* filter is at most the mean density and at least 1.1 times the minimum.
C4_ThreshBetweenFloorAndMean ==
    (density_filter.stage = "filtered" /\ ScaledVariance(densities) > 0)
    => /\ thresh_leq(densities, Sum(densities), Len(densities))
       /\ ~thresh_lt(densities, 11 * MinOf(densities), 10)

\* A mesh in which cleanup finds nothing to remove: no face without area, no
\* two faces on the same three vertices, no vertex left out.
IsClean(faces) == cleanup(faces) = faces

\* C5: a mesh returned by the double-siding branch, also after the final
\* cleanup of convert_ply, has twice the faces of the mesh that was judged,
\* every judged face as it was and the winding-reversed twin of each.  It is
\* stated for the judged meshes in which cleanup has nothing to remove.
C5_DoubleSidedHasTwins ==
    (/\ fixed.stage \in {"fixed", "final"}
     /\ fixed.double_sided
     /\ IsClean(mesh.faces))
    => /\ Len(fixed.faces) = 2 * Len(mesh.faces)
       /\ \A f \in Range(mesh.faces) :
             f \in Range(fixed.faces) /\ flip(f) \in Range(fixed.faces)

\* A mesh that holds the reversed twin of each of its faces.
IsDoubled(faces) ==
    faces # <<>> /\ \A f \in Range(faces) : flip(f) \in Range(faces)

\* C6: the fixer returns a doubled mesh exactly when the outward ratio of
\* the judged mesh is below 0.6; at 0.6 or more the mesh is returned without
\* doubling and with no more faces than it had.  The first half is stated
\* for the judged meshes in which cleanup has nothing to remove.
C6_DoubledIffBelowThreshold ==
    fixed.stage = "fixed"
    => /\ IsClean(mesh.faces)
          => (IsDoubled(fixed.faces)
              <=> (/\ Len(mesh.faces) > 0
                   /\ 10 * outward_faces(mesh) < 6 * Len(mesh.faces)))
       /\ ~(/\ Len(mesh.faces) > 0
            /\ 10 * outward_faces(mesh) < 6 * Len(mesh.faces))
          => /\ ~fixed.double_sided
             /\ Len(fixed.faces) <= Len(mesh.faces)

\* C11: the reconstruction of a point cloud of at least one point hands the
\* orientation fixer a mesh of at least one vertex and one face: the
\* Poisson mesh when Open3D is there, did not raise and left vertices and
\* faces; otherwise the convex hull; the unit cube when the hull raised.
C11_ReconstructionChain ==
    recon.stage = "fixer"
    => LET poisson_ok == /\ recon.has_open3d
                         /\ ~recon.poisson.raises
                         /\ recon.poisson.vertices > 0
                         /\ recon.poisson.faces > 0
       IN /\ recon.mesh.vertices >= 1
          /\ recon.mesh.faces >= 1
          /\ recon.mesh.source = "poisson" <=> poisson_ok
          /\ recon.mesh.source = "convex_hull"
             <=> (~poisson_ok /\ ~recon.hull.raises)
          /\ recon.mesh.source = "box" <=> (~poisson_ok /\ recon.hull.raises)

\* One point: Poisson left vertices without faces, the hull raised, and the
\* fixer gets the cube.
C11_Witness ==
    /\ recon.stage = "fixer"
    /\ recon.points = 1
    /\ recon.has_open3d
    /\ recon.poisson.vertices > 0
    /\ recon.poisson.faces = 0
    /\ recon.mesh.source = "box"

\* C12: a job whose status is error has no entry in the result map;
\* /progress returns download links only for a job whose status is
\* completed; /download serves a file only for a job that was marked
\* completed.  A job was marked completed exactly if its entry shows it:
\* the status stays once written, and /cleanup, which removes the entry,
\* removes the result map's entry with it.
C12_NoFailedOutputExposed ==
    \A j \in Jobs :
       /\ (HasEntry(j) /\ conversion_progress[j].status = "error")
          => j \notin DOMAIN conversion_results
       /\ (progress_response(j).code = 200 /\ progress_response(j).has_links)
          => progress_response(j).status = "completed"
       /\ \A f \in FormatNames :
             download_response(j, f).code = 200
             => /\ HasEntry(j)
                /\ conversion_progress[j].status = "completed"

\* C13: the last callback before the terminal transition of a job that ends
\* completed carries 100 (convert_ply's callback at line 491), and from that
\* callback on the entry's progress is 100, through the worker's own writes
\* and whenever the status is completed; an entry whose status is completed
\* never takes the status error, so a job that ends in error never showed
\* completed.
C13_CompletedAtHundred ==
    /\ [](\A j \in Jobs :
             HasEntry(j)
             => /\ pc[j] \in {"L221", "L235", "L236", "L237"}
                   => conversion_progress[j].progress = 100
                /\ conversion_progress[j].status = "completed"
                   => /\ conversion_progress[j].progress = 100
                      /\ pc[j] \in {"L236", "L237", "L254", "done"})
    /\ [][\A j \in Jobs :
             (HasEntry(j) /\ j \in DOMAIN conversion_progress')
             => /\ conversion_progress[j].status = "completed"
                   => conversion_progress'[j].status = "completed"
                /\ conversion_progress'[j].status = "error"
                   => conversion_progress[j].status \in {"converting", "error"}
                /\ (pc[j] = "P491" /\ pc'[j] = "L221")
                   => conversion_progress'[j].progress = 100
         ]_vars

\* Right after the last callback: progress 100, status still converting.
C13_Witness ==
    \E j \in Jobs :
       /\ pc[j] = "L235"
       /\ HasEntry(j)
       /\ conversion_progress[j].progress = 100
       /\ conversion_progress[j].status = "converting"
       /\ conversion_progress[j].message = "Conversion completed successfully!"

\* The smoother's passes for the four levels.
Passes(level) ==
    CASE level = "light" -> 1
      [] level = "medium" -> 2
      [] level = "high" -> 3
      [] level = "ultra" -> 5

\* C14: convert_ply calls smooth_mesh_basic exactly when the input is a
\* mesh; with the method smoothed and no exception it makes 1, 2, 3 or 5
\* passes for light, medium, high, ultra; without the method, or when a
\* pass raises, it returns the mesh it was given; it never raises.
C14_SmootherOnMeshPathOnly ==
    smooth.stage = "done"
    => /\ smooth.smoother.called <=> ~smooth.is_point_cloud
       /\ smooth.smoother.returned \in {"mesh", "smoothed"}
       /\ ~smooth.smoother.called
          => smooth.smoother.passes = 0 /\ smooth.smoother.returned = "mesh"
       /\ (smooth.smoother.called /\ smooth.level \in SMOOTHING_LEVELS)
          => IF /\ smooth.has_smoothed
                /\ smooth.raise_at \notin 1..Passes(smooth.level)
             THEN /\ smooth.smoother.passes = Passes(smooth.level)
                  /\ smooth.smoother.returned = "smoothed"
             ELSE /\ smooth.smoother.passes < Passes(smooth.level)
                  /\ smooth.smoother.returned = "mesh"

\* A mesh at level ultra whose third pass raised.
C14_Witness ==
    /\ smooth.stage = "done"
    /\ ~smooth.is_point_cloud
    /\ smooth.level = "ultra"
    /\ smooth.has_smoothed
    /\ smooth.raise_at = 3
    /\ smooth.smoother.called
    /\ smooth.smoother.passes = 2
    /\ smooth.smoother.returned = "mesh"

\* C18: light, medium, high, ultra give the Poisson depths 8, 9, 10, 11;
\* Laplacian smoothing follows the reconstruction for high (1 iteration) and
\* ultra (2) only; a level that is none of the four is medium everywhere:
\* /upload passes medium on, and convert_ply called with it uses depth 9,
\* no extra smoothing, and two passes of the smoother.
C18_LevelParameters ==
    LET known == smooth.level \in {"light", "medium", "high", "ultra"} IN
    /\ (smooth.stage \in {"mesh", "done"} /\ smooth.is_point_cloud)
       => /\ smooth.level = "light" => smooth.depth = 8 /\ smooth.extra = 0
          /\ smooth.level = "medium" => smooth.depth = 9 /\ smooth.extra = 0
          /\ smooth.level = "high" => smooth.depth = 10 /\ smooth.extra = 1
          /\ smooth.level = "ultra" => smooth.depth = 11 /\ smooth.extra = 2
          /\ ~known => smooth.depth = 9 /\ smooth.extra = 0
    /\ (smooth.stage # "request" /\ smooth.caller = "upload")
       => smooth.level = IF smooth.requested
                               \in {"light", "medium", "high", "ultra"}
                         THEN smooth.requested ELSE "medium"
    /\ (smooth.stage # "request" /\ smooth.caller # "upload")
       => smooth.level = smooth.requested
    /\ (/\ smooth.stage = "done"
        /\ ~known
        /\ ~smooth.is_point_cloud
        /\ smooth.has_smoothed
        /\ smooth.raise_at \notin {1, 2})
       => smooth.smoother.passes = 2

\* convert_ply called with a level that is none of the four, on a point
\* cloud: depth 9, no extra smoothing.
C18_Witness ==
    /\ smooth.stage = "done"
    /\ smooth.caller = "convert_ply"
    /\ smooth.level = "extreme"
    /\ smooth.is_point_cloud
    /\ smooth.depth = 9
    /\ smooth.extra = 0


\* The worker's positions after the load.
LaterStages ==
    {"P419", "P422", "P425", "P428", "P431", "P433", "P435", "P440", "P442",
     "P447", "P453", "P463", "P473", "P479", "P488", "P491",
     "L221", "L235", "L236", "L237"}

primary_failed(primary) ==
    primary.kind \in {"raise", "no vertices"} \/ primary.colors_raise

\* PlyData.read raises, or the conversion of the face rows does.
secondary_failed(secondary) ==
    \/ secondary.kind = "raise"
    \/ secondary.kind = "parsed" /\ secondary.face_element
         /\ secondary.vertex_indices /\ secondary.faces # 0

face_list_absent_or_empty(l) ==
    IF l.ply_data.parser = "trimesh"
    THEN l.primary.faces = None \/ l.primary.faces = 0
    ELSE \/ ~l.secondary.face_element
         \/ ~l.secondary.vertex_indices
         \/ l.secondary.faces = 0

\* C15: the loader tries the primary parser first and the secondary parser
\* only when the primary one failed or gave no vertex data; it raises only
\* when both failed, and it classifies the input as a point cloud exactly
\* when the face list it returns is absent or empty.  A job whose load was
\* raised reaches no later stage and writes no output file, and it ends
\* with its entry (when /cleanup has not removed it) in status error with a
\* message that names the load failure.
C15_LoaderFallsBack ==
    loader.stage = "called" =>
        LET ply_data == loader.ply_data IN
        /\ ply_data.parser = "trimesh" <=> ~primary_failed(loader.primary)
        /\ ply_data.parser = "plyfile" <=> primary_failed(loader.primary)
        /\ ply_data.raised <=> /\ primary_failed(loader.primary)
                               /\ secondary_failed(loader.secondary)
        /\ ~ply_data.raised =>
              /\ ply_data.is_point_cloud <=> face_list_absent_or_empty(loader)
              /\ is_point_cloud[TheJob] = ply_data.is_point_cloud
        /\ ply_data.raised =>
              /\ pc[TheJob] \notin LaterStages
              /\ \A f \in FormatNames : <<TheJob, f>> \notin output_files
              /\ TheJob \notin DOMAIN conversion_results
              /\ pc[TheJob] = "done" /\ HasEntry(TheJob) =>
                    /\ conversion_progress[TheJob].status = "error"
                    /\ conversion_progress[TheJob].message =
                         "Conversion failed: Conversion failed: Failed to load PLY file"

\* Both parsers failed and the job has ended with its entry in error.
C15_Witness ==
    /\ loader.stage = "called"
    /\ loader.ply_data.raised
    /\ pc[TheJob] = "done"
    /\ HasEntry(TheJob)
    /\ conversion_progress[TheJob].status = "error"


\* What belongs to job k: its registry entry, its result-map entry, its
\* input file and its output files.
own(cp, cr, uf, of, k) ==
    [entry   |-> IF k \in DOMAIN cp THEN <<cp[k]>> ELSE <<>>,
     result  |-> IF k \in DOMAIN cr THEN <<cr[k]>> ELSE <<>>,
     input   |-> k \in uf,
     outputs |-> { f \in FormatNames : <<k, f>> \in of }]

\* C16: a step of the worker of one job, its progress callbacks included,
\* leaves the registry entry, the result-map entry, the input file and the
\* output files of every other job as they were.
C16_JobsIndependent ==
    [][\A j \in Jobs :
          convert_file_async_debug(j) =>
             \A k \in Jobs \ {j} :
                own(conversion_progress', conversion_results',
                    upload_files', output_files', k)
                = own(conversion_progress, conversion_results,
                      upload_files, output_files, k)]_vars

\* The first job has run to its end and has left its result, while the
\* second job, started with it, is still converting with its input file
\* and its entry in place.
C16_Witness ==
    /\ pc[1] = "done"
    /\ 1 \in DOMAIN conversion_results
    /\ <<1, "stl">> \in output_files
    /\ 1 \notin upload_files
    /\ pc[2] \notin {"none", "done"}
    /\ 2 \in upload_files
    /\ 2 \in DOMAIN conversion_progress
    /\ conversion_progress[2].status = "converting"


\* C17: the fixer always returns a mesh, by one of its three return
\* statements, whatever steps raise; an exception of fix_normals or of
\* unify_normals changes nothing of that, and unless step 3 itself raises
\* the double-siding branch is taken exactly when the outward ratio is
\* below 0.6.  When step 4 raises the mesh comes back as it was handed in.
C17_FixerNeverFatal ==
    fixed.stage = "fixed" =>
        /\ fixed.returned \in {"line 129", "line 143", "line 147"}
        /\ fixed = [fix_face_orientation_and_normals(
                        mesh, fixed.raised \ {"step 1", "step 2"})
                    EXCEPT !.raised = fixed.raised]
        /\ "step 3" \notin fixed.raised
              => fixed.double_sided = needs_double_siding(mesh)
        /\ fixed.returned = "line 129" <=> fixed.double_sided
        /\ fixed.returned = "line 147" => fixed.faces = mesh.faces

\* fix_normals and unify_normals both raised, and the mesh, with less than
\* 0.6 of its faces outward, came back from the double-siding branch.
C17_Witness ==
    /\ fixed.stage = "fixed"
    /\ {"step 1", "step 2"} \subseteq fixed.raised
    /\ fixed.double_sided
    /\ fixed.returned = "line 129"
    /\ Len(mesh.faces) > 0


\* C19: after /cleanup/<id> has returned for a job (the job was started and
\* its registry entry is gone: nothing but /cleanup deletes an entry, and
\* nothing but /upload, with a new id, creates one), the result map does not
\* hold the id, no output file of the job exists and /download serves none.
C19_CleanupIsFinal ==
    \A j \in Jobs :
       (pc[j] # "none" /\ ~HasEntry(j))
       => /\ j \notin DOMAIN conversion_results
          /\ \A f \in FormatNames :
                /\ <<j, f>> \notin output_files
                /\ download_response(j, f).code = 404


\* C20: when /upload has returned, every input file in the upload folder
\* is the file of a job whose worker was started and has not yet gone
\* through its finally clause: no saved file is left without a worker to
\* delete it.
C20_SavedInputIsDeleted ==
    \A j \in Jobs : j \in upload_files => pc[j] \notin {"none", "done"}

====
